---------------------------- MODULE Spec2Model ----------------------------
(***************************************************************************)
(* A model of the ephais-error crate (src/src/lib.rs): the Severity enum,  *)
(* ErrorContext, the Error enum with its ten constructors, the Display     *)
(* implementations and Error::source, driven by a single-threaded client   *)
(* that constructs errors, wraps them into new errors, inserts metadata    *)
(* into the public context field, formats them and walks the cause chain.  *)
(* Strings are TLC strings: \o is concatenation, Len and SubSeq work on    *)
(* characters.                                                             *)
(***************************************************************************)
EXTENDS Integers, Sequences, FiniteSets, TLC

(* ------------------------------ bounds -------------------------------- *)

\* Longest cause chain the client builds (number of nested causes).
MaxDepth == 2

\* Reference suffix / description pairs the client passes to constructors.
Inputs ==
    { [reference |-> "TIMEOUT", description |-> "Connection timeout"],
      [reference |-> "",        description |-> "Cannot access file"] }

\* The arguments the client passes when it wraps the error it owns.
WrapInputs ==
    { [reference |-> "TIMEOUT", description |-> "Connection timeout"] }

\* Keys and values the client inserts into ErrorContext.metadata.
MetaKeys == {"host"}
MetaVals == {"a", "b"}

(* ----------------------- Option<T> and values -------------------------- *)

\* Record constructors list their fields in one fixed order throughout:
\* reference, description, severity, metadata; type, ctx, variant, src.

None == [some |-> FALSE]
Some(v) == [some |-> TRUE, val |-> v]

\* The empty HashMap<String, String>.
EmptyMap == [k \in {} |-> ""]

\* Foreign causes: std::io::Error::new(kind, msg), whose Display is msg and
\* whose source() is None.
Foreign ==
    { [type |-> "io", text |-> "Timed out"],
      [type |-> "io", text |-> "Permission denied"] }

(* ----------------------------- Severity -------------------------------- *)

Severity == {"Critical", "Error", "Warning", "Info"}

\* A Severity display with a copied arm: Warning rendered as ERR.
SeverityDisplayMut(s) ==
    CASE s = "Critical" -> "CRIT"
      [] s = "Error"    -> "ERR"
      [] s = "Warning"  -> "ERR"
      [] s = "Info"     -> "INFO"

SeverityDisplay(s) ==
    CASE s = "Critical" -> "CRIT"
      [] s = "Error"    -> "ERR"
      [] s = "Warning"  -> "WARN"
      [] s = "Info"     -> "INFO"

(* --------------------------- ErrorContext ------------------------------ *)

ErrorContext_new(reference, severity, description) ==
    [reference |-> reference, description |-> description,
     severity |-> severity, metadata |-> EmptyMap]

\* A context display with the reference label misspelt.
ErrorContextDisplayNoSpace(ctx) ==
    SeverityDisplay(ctx.severity) \o " | Ref:" \o ctx.reference \o " | "
        \o ctx.description

\* A context display that also renders the metadata entries.
ErrorContextDisplayMut(ctx) ==
    SeverityDisplay(ctx.severity) \o " | Ref: " \o ctx.reference \o " | "
        \o ctx.description
        \o (IF DOMAIN ctx.metadata = {} THEN ""
            ELSE " | " \o ctx.metadata[CHOOSE k \in DOMAIN ctx.metadata : TRUE])

ErrorContextDisplay(ctx) ==
    SeverityDisplay(ctx.severity) \o " | Ref: " \o ctx.reference \o " | "
        \o ctx.description

(* ------------------------ Error: constructors -------------------------- *)

\* A value of the Error enum.  For Network, DataFormat, Unknown and Scp the
\* second field is an Option<Box<dyn StdError>>; for FileSystem and External
\* it is the Box itself.
MkError(variant, ctx, src) ==
    [type |-> "Error", ctx |-> ctx, variant |-> variant, src |-> src]

Error_network(reference, description) ==
    MkError("Network",
            ErrorContext_new("NET-" \o reference, "Error", description), None)

Error_network_with_source(reference, description, source) ==
    MkError("Network",
            ErrorContext_new("NET-" \o reference, "Error", description),
            Some(source))

Error_data_format(reference, description) ==
    MkError("DataFormat",
            ErrorContext_new("FMT-" \o reference, "Error", description), None)

\* data_format_with_source with the prefix of the constructor it was copied from.
Error_data_format_with_source_Mut(reference, description, source) ==
    MkError("DataFormat",
            ErrorContext_new("NET-" \o reference, "Error", description),
            Some(source))

Error_data_format_with_source(reference, description, source) ==
    MkError("DataFormat",
            ErrorContext_new("FMT-" \o reference, "Error", description),
            Some(source))

Error_unknown(reference, description, severity) ==
    MkError("Unknown",
            ErrorContext_new("UNK-" \o reference, severity, description), None)

\* unknown_with_source ignoring the severity it is given.
Error_unknown_with_source_Mut(reference, description, severity, source) ==
    MkError("Unknown",
            ErrorContext_new("UNK-" \o reference, "Error", description),
            Some(source))

Error_unknown_with_source(reference, description, severity, source) ==
    MkError("Unknown",
            ErrorContext_new("UNK-" \o reference, severity, description),
            Some(source))

Error_file_system(reference, description, source) ==
    MkError("FileSystem",
            [reference |-> "FSY-" \o reference, description |-> description,
             severity |-> "Error", metadata |-> EmptyMap],
            source)

Error_scp(reference, description) ==
    MkError("Scp",
            ErrorContext_new("SCP-" \o reference, "Error", description), None)

Error_scp_with_source(reference, description, source) ==
    MkError("Scp",
            ErrorContext_new("SCP-" \o reference, "Error", description),
            Some(source))

\* external with the prefix of file_system, which it was copied from.
Error_external_Mut(reference, description, source) ==
    MkError("External",
            [reference |-> "FSY-" \o reference, description |-> description,
             severity |-> "Error", metadata |-> EmptyMap],
            source)

Error_external(reference, description, source) ==
    MkError("External",
            [reference |-> "EXT-" \o reference, description |-> description,
             severity |-> "Error", metadata |-> EmptyMap],
            source)

(* --------------------- Error: Display and source ----------------------- *)

OptionalKinds == {"Network", "DataFormat", "Unknown", "Scp"}

\* source() answering None for the kinds that always hold a cause.
ErrorSourceNoBoxed(e) ==
    CASE e.variant \in OptionalKinds /\ e.src.some -> Some(e.src.val)
      [] e.variant \in {"FileSystem", "External"} -> None
      [] e.variant \in OptionalKinds /\ ~e.src.some -> None

\* source() with Scp left out of the arm that returns the optional cause.
ErrorSourceNoScp(e) ==
    CASE e.variant \in (OptionalKinds \ {"Scp"}) /\ e.src.some -> Some(e.src.val)
      [] e.variant \in {"FileSystem", "External"} -> Some(e.src)
      [] e.variant = "Scp" \/ ~e.src.some -> None

\* impl StdError for Error: source().
ErrorSource(e) ==
    CASE e.variant \in OptionalKinds /\ e.src.some -> Some(e.src.val)
      [] e.variant \in {"FileSystem", "External"} -> Some(e.src)
      [] e.variant \in OptionalKinds /\ ~e.src.some -> None

\* source() through a &dyn StdError: an io::Error built from a message has
\* no source, an Error answers with its own implementation.
DynSource(d) == IF d.type = "Error" THEN ErrorSource(d) ELSE None

RECURSIVE ErrorDisplay(_)

\* Display through a &dyn StdError.
DynDisplay(d) == IF d.type = "Error" THEN ErrorDisplay(d) ELSE d.text

\* Display whose External arm forgets the source.
ErrorDisplayMut(e) ==
    CASE e.variant = "External" ->
           "[EXTERNAL] " \o ErrorContextDisplay(e.ctx)
      [] e.variant = "FileSystem" ->
           "[FILE SYSTEM] " \o ErrorContextDisplay(e.ctx) \o " | Source: "
               \o DynDisplay(e.src)
      [] e.variant = "Network" /\ e.src.some ->
           "[NETWORK] " \o ErrorContextDisplay(e.ctx) \o " | Source: "
               \o DynDisplay(e.src.val)
      [] e.variant = "DataFormat" /\ e.src.some ->
           "[DATA FORMAT] " \o ErrorContextDisplay(e.ctx) \o " | Source: "
               \o DynDisplay(e.src.val)
      [] e.variant = "Unknown" /\ e.src.some ->
           "[UNKNOWN] " \o ErrorContextDisplay(e.ctx) \o " | Source: "
               \o DynDisplay(e.src.val)
      [] e.variant = "Scp" /\ e.src.some ->
           "[SCP] " \o ErrorContextDisplay(e.ctx) \o " | Source: "
               \o DynDisplay(e.src.val)
      [] e.variant = "Network" -> "[NETWORK] " \o ErrorContextDisplay(e.ctx)
      [] e.variant = "DataFormat" ->
           "[DATA FORMAT] " \o ErrorContextDisplay(e.ctx)
      [] e.variant = "Unknown" -> "[UNKNOWN] " \o ErrorContextDisplay(e.ctx)
      [] e.variant = "Scp" -> "[SCP] " \o ErrorContextDisplay(e.ctx)

ErrorDisplay(e) ==
    CASE e.variant = "Network" /\ e.src.some ->
           "[NETWORK] " \o ErrorContextDisplay(e.ctx) \o " | Source: "
               \o DynDisplay(e.src.val)
      [] e.variant = "Network" /\ ~e.src.some ->
           "[NETWORK] " \o ErrorContextDisplay(e.ctx)
      [] e.variant = "DataFormat" /\ e.src.some ->
           "[DATA FORMAT] " \o ErrorContextDisplay(e.ctx) \o " | Source: "
               \o DynDisplay(e.src.val)
      [] e.variant = "DataFormat" /\ ~e.src.some ->
           "[DATA FORMAT] " \o ErrorContextDisplay(e.ctx)
      [] e.variant = "Unknown" /\ e.src.some ->
           "[UNKNOWN] " \o ErrorContextDisplay(e.ctx) \o " | Source: "
               \o DynDisplay(e.src.val)
      [] e.variant = "Unknown" /\ ~e.src.some ->
           "[UNKNOWN] " \o ErrorContextDisplay(e.ctx)
      [] e.variant = "FileSystem" ->
           "[FILE SYSTEM] " \o ErrorContextDisplay(e.ctx) \o " | Source: "
               \o DynDisplay(e.src)
      [] e.variant = "External" ->
           "[EXTERNAL] " \o ErrorContextDisplay(e.ctx) \o " | Source: "
               \o DynDisplay(e.src)
      [] e.variant = "Scp" /\ e.src.some ->
           "[SCP] " \o ErrorContextDisplay(e.ctx) \o " | Source: "
               \o DynDisplay(e.src.val)
      [] e.variant = "Scp" /\ ~e.src.some ->
           "[SCP] " \o ErrorContextDisplay(e.ctx)

(* ------------------------------- state --------------------------------- *)

VARIABLES
    err,      \* Option<Error>: the error value the client owns
    call,     \* the constructor call that built err: name and arguments
    chain,    \* the values moved into a cause slot, in order of wrapping
    out,      \* Option<String>: format!("{}", err) since the last change
    pc,       \* cause-chain walk: "idle", "walking" or "done"
    cur,      \* Option<&dyn StdError>: the link the walk stands on
    visited   \* the causes source() has returned during the walk

vars == <<err, call, chain, out, pc, cur, visited>>

NoCall == [fn |-> "none"]

Init ==
    /\ err = None
    /\ call = NoCall
    /\ chain = <<>>
    /\ out = None
    /\ pc = "idle"
    /\ cur = None
    /\ visited = <<>>

\* The causes a with-source constructor can be given with arguments i: a
\* fresh foreign error, or the error the client owns (moved into the Box).
\* The client moves its error only as constructed, with the arguments of
\* WrapInputs, and only while the chain is shorter than MaxDepth.
Sources(i) ==
    Foreign \cup (IF /\ err.some
                     /\ err.val.ctx.metadata = EmptyMap
                     /\ i \in WrapInputs
                     /\ Len(chain) < MaxDepth
                  THEN {err.val} ELSE {})

\* The owned value is replaced by a newly constructed one.
Built(e, c, ch) ==
    /\ err' = Some(e)
    /\ call' = c
    /\ chain' = ch
    /\ out' = None
    /\ pc' = "idle"
    /\ cur' = None
    /\ visited' = <<>>

ChainWith(source) ==
    IF source.type = "Error" THEN Append(chain, source) ELSE <<source>>

network ==
    \E i \in Inputs :
        Built(Error_network(i.reference, i.description),
              [reference |-> i.reference,
               description |-> i.description, source |-> None,
               fn |-> "network"],
              <<>>)

network_with_source ==
    \E i \in Inputs : \E source \in Sources(i) :
        Built(Error_network_with_source(i.reference, i.description, source),
              [reference |-> i.reference,
               description |-> i.description, source |-> Some(source),
               fn |-> "network_with_source"],
              ChainWith(source))

data_format ==
    \E i \in Inputs :
        Built(Error_data_format(i.reference, i.description),
              [reference |-> i.reference,
               description |-> i.description, source |-> None,
               fn |-> "data_format"],
              <<>>)

data_format_with_source ==
    \E i \in Inputs : \E source \in Sources(i) :
        Built(Error_data_format_with_source(i.reference, i.description, source),
              [reference |-> i.reference,
               description |-> i.description, source |-> Some(source),
               fn |-> "data_format_with_source"],
              ChainWith(source))

unknown ==
    \E i \in Inputs, severity \in Severity :
        Built(Error_unknown(i.reference, i.description, severity),
              [reference |-> i.reference,
               description |-> i.description, severity |-> severity,
               source |-> None, fn |-> "unknown"],
              <<>>)

unknown_with_source ==
    \E i \in Inputs, severity \in Severity : \E source \in Sources(i) :
        Built(Error_unknown_with_source(i.reference, i.description, severity,
                                        source),
              [reference |-> i.reference,
               description |-> i.description, severity |-> severity,
               source |-> Some(source), fn |-> "unknown_with_source"],
              ChainWith(source))

file_system ==
    \E i \in Inputs : \E source \in Sources(i) :
        Built(Error_file_system(i.reference, i.description, source),
              [reference |-> i.reference,
               description |-> i.description, source |-> Some(source),
               fn |-> "file_system"],
              ChainWith(source))

scp ==
    \E i \in Inputs :
        Built(Error_scp(i.reference, i.description),
              [reference |-> i.reference,
               description |-> i.description, source |-> None,
               fn |-> "scp"],
              <<>>)

scp_with_source ==
    \E i \in Inputs : \E source \in Sources(i) :
        Built(Error_scp_with_source(i.reference, i.description, source),
              [reference |-> i.reference,
               description |-> i.description, source |-> Some(source),
               fn |-> "scp_with_source"],
              ChainWith(source))

external ==
    \E i \in Inputs : \E source \in Sources(i) :
        Built(Error_external(i.reference, i.description, source),
              [reference |-> i.reference,
               description |-> i.description, source |-> Some(source),
               fn |-> "external"],
              ChainWith(source))

\* format!("{}", err): Display of the owned error.
to_string ==
    /\ err.some
    /\ out' = Some(ErrorDisplay(err.val))
    /\ UNCHANGED <<err, call, chain, pc, cur, visited>>

\* HashMap::insert on the public metadata field of the owned error's
\* context: a new key is added, an existing key is overwritten.  The
\* mutable borrow ends every reference a walk still holds.
HashMapInsert(m, k, v) ==
    [x \in DOMAIN m \cup {k} |-> IF x = k THEN v ELSE m[x]]

metadata_insert ==
    /\ err.some
    /\ \E k \in MetaKeys, v \in MetaVals :
          err' = Some([err.val EXCEPT
                         !.ctx.metadata = HashMapInsert(@, k, v)])
    /\ pc' = "idle"
    /\ cur' = None
    /\ visited' = <<>>
    /\ UNCHANGED <<call, chain, out>>

\* let mut cur: Option<&dyn StdError> = Some(&err);
walk_start ==
    /\ err.some
    /\ pc = "idle"
    /\ pc' = "walking"
    /\ cur' = Some(err.val)
    /\ visited' = <<>>
    /\ UNCHANGED <<err, call, chain, out>>

\* cur = cur.source(); the walk ends when source() returns None.
walk_step ==
    /\ pc = "walking"
    /\ LET s == DynSource(cur.val) IN
          /\ cur' = s
          /\ visited' = IF s.some THEN Append(visited, s.val) ELSE visited
          /\ pc' = IF s.some THEN "walking" ELSE "done"
    /\ UNCHANGED <<err, call, chain, out>>

NextCtor ==
    \/ network
    \/ network_with_source
    \/ data_format
    \/ data_format_with_source
    \/ unknown
    \/ unknown_with_source
    \/ file_system
    \/ scp
    \/ scp_with_source
    \/ external
    \/ to_string
    \/ walk_start
    \/ walk_step

Next ==
    \/ NextCtor
    \/ metadata_insert

Spec == Init /\ [][Next]_vars

\* The client that builds errors through the constructors alone and only
\* reads them: it never writes to the public metadata field.
SpecCtor == Init /\ [][NextCtor]_vars

(* ------------------- tables the claims are stated in ------------------- *)

NoCauseFns == {"network", "data_format", "unknown", "scp"}
WithCauseFns == {"network_with_source", "data_format_with_source",
                 "unknown_with_source", "scp_with_source", "file_system",
                 "external"}
UnknownFns == {"unknown", "unknown_with_source"}

\* Kind tag, reference prefix and constructors of each kind, as documented.
KindTable ==
    { [tag |-> "NETWORK",     prefix |-> "NET-",
       fns |-> {"network", "network_with_source"}],
      [tag |-> "DATA FORMAT", prefix |-> "FMT-",
       fns |-> {"data_format", "data_format_with_source"}],
      [tag |-> "UNKNOWN",     prefix |-> "UNK-",
       fns |-> {"unknown", "unknown_with_source"}],
      [tag |-> "FILE SYSTEM", prefix |-> "FSY-", fns |-> {"file_system"}],
      [tag |-> "EXTERNAL",    prefix |-> "EXT-", fns |-> {"external"}],
      [tag |-> "SCP",         prefix |-> "SCP-",
       fns |-> {"scp", "scp_with_source"}] }

RowOf(fn) == CHOOSE r \in KindTable : fn \in r.fns

SeverityTag ==
    [s \in Severity |->
        CASE s = "Critical" -> "CRIT" [] s = "Error" -> "ERR"
          [] s = "Warning" -> "WARN" [] s = "Info" -> "INFO"]

\* The severity the documentation gives the error a call builds.
CallSeverity == IF call.fn \in UnknownFns THEN call.severity ELSE "Error"

StartsWith(s, p) == Len(p) <= Len(s) /\ SubSeq(s, 1, Len(p)) = p

Contains(s, p) ==
    \E i \in 1..(Len(s) - Len(p) + 1) : SubSeq(s, i, i + Len(p) - 1) = p

Reverse(q) == [i \in 1..Len(q) |-> q[Len(q) + 1 - i]]

\* The Error values among the owned error and its causes.
Links == (IF err.some THEN {err.val} ELSE {})
            \cup {chain[i] : i \in {j \in 1..Len(chain) : chain[j].type = "Error"}}

(* ------------------------------- claims -------------------------------- *)

\* C1: an error built by a no-cause constructor (network, data_format,
\* unknown, scp) from suffix s and description d is displayed as exactly
\* "[<KIND-TAG>] <SEVERITY-TAG> | Ref: <PREFIX-><s> | <d>".
C1_NoCauseDisplayExact ==
    (out.some /\ call.fn \in NoCauseFns) =>
        out.val = "[" \o RowOf(call.fn).tag \o "] " \o SeverityTag[CallSeverity]
                    \o " | Ref: " \o RowOf(call.fn).prefix \o call.reference
                    \o " | " \o call.description

C1_Witness ==
    /\ out.some
    /\ call.fn = "network"
    /\ call.reference = "TIMEOUT"
    /\ out.val = "[NETWORK] ERR | Ref: NET-TIMEOUT | Connection timeout"

\* C2: an error built by a with-cause constructor from a cause rendering as
\* T is displayed as the no-cause rendering of its context followed by
\* " | Source: T", and source() returns a cause that renders as T.
C2_WithCauseDisplayAndSource ==
    (err.some /\ call.fn \in WithCauseFns) =>
        LET T == DynDisplay(call.source.val)
            s == ErrorSource(err.val)
        IN  /\ s.some
            /\ DynDisplay(s.val) = T
            /\ out.some =>
                 out.val = "[" \o RowOf(call.fn).tag \o "] "
                             \o ErrorContextDisplay(err.val.ctx)
                             \o " | Source: " \o T

C2_Witness ==
    /\ out.some
    /\ call.fn = "file_system"
    /\ call.source = Some([type |-> "io", text |-> "Permission denied"])
    /\ out.val = "[FILE SYSTEM] ERR | Ref: FSY- | Cannot access file | Source: Permission denied"

\* C3: every FileSystem or External error was built with a cause: source()
\* returns one and the Display output carries a " | Source: " segment.
C3_AlwaysCause ==
    \A e \in Links :
        e.variant \in {"FileSystem", "External"} =>
            /\ ErrorSource(e).some
            /\ Contains(ErrorDisplay(e), " | Source: ")
            /\ (e = err.val /\ out.some) => Contains(out.val, " | Source: ")

C3_Witness ==
    /\ out.some
    /\ err.val.variant = "External"
    /\ Len(chain) = 2
    /\ chain[2].variant = "FileSystem"

\* C4: Display maps Critical, Error, Warning, Info to CRIT, ERR, WARN, INFO,
\* and no two severities share a text.
C4_SeverityDisplay ==
    /\ \A s \in Severity : SeverityDisplay(s) = SeverityTag[s]
    /\ \A s, t \in Severity : SeverityDisplay(s) = SeverityDisplay(t) => s = t
    /\ out.some =>
         Contains(out.val, "] " \o SeverityTag[err.val.ctx.severity] \o " | Ref: ")

C4_Witness ==
    /\ out.some
    /\ call.fn = "unknown"
    /\ err.val.ctx.severity = "Warning"
    /\ StartsWith(out.val, "[UNKNOWN] WARN | ")

\* C5: the stored reference is the kind's prefix followed by the suffix the
\* constructor was given (the empty suffix included), the same for the
\* with-cause and the no-cause constructor of a kind.
C5_ReferencePrefix ==
    err.some =>
        err.val.ctx.reference = RowOf(call.fn).prefix \o call.reference

C5_Witness ==
    /\ err.some
    /\ call.fn = "external"
    /\ call.reference = ""
    /\ err.val.ctx.reference = "EXT-"

\* C6: Network, DataFormat, FileSystem, External and Scp constructors give
\* severity Error; unknown and unknown_with_source give the severity passed.
C6_Severity ==
    err.some =>
        err.val.ctx.severity =
            (IF call.fn \in UnknownFns THEN call.severity ELSE "Error")

C6_Witness ==
    /\ err.some
    /\ call.fn = "unknown_with_source"
    /\ call.severity = "Critical"
    /\ err.val.ctx.severity = "Critical"

\* C7: a metadata insertion changes neither the Display output of the error
\* nor that of its context, so the output formatted before any number of
\* insertions is still the output of the error after them.
C7_MetadataNotRendered ==
    /\ [][metadata_insert =>
            /\ ErrorDisplay(err'.val) = ErrorDisplay(err.val)
            /\ ErrorContextDisplay(err'.val.ctx)
                  = ErrorContextDisplay(err.val.ctx)
        ]_vars
    /\ [](out.some => out.val = ErrorDisplay(err.val))

C7_Witness ==
    /\ out.some
    /\ "host" \in DOMAIN err.val.ctx.metadata
    /\ err.val.ctx.metadata["host"] = "b"
    /\ out.val = ErrorDisplay(err.val)

\* C8: after n wraps on top of a base without a cause, following source()
\* from the outermost error visits exactly the n causes, in reverse order of
\* wrapping, and then gets None.
C8_ChainWalk ==
    /\ pc = "walking" =>
         /\ cur.some
         /\ Len(visited) <= Len(chain)
         /\ visited = SubSeq(Reverse(chain), 1, Len(visited))
    /\ pc = "done" => ~cur.some /\ visited = Reverse(chain)
    /\ chain # <<>> => ~DynSource(chain[1]).some

C8_Witness ==
    /\ pc = "done"
    /\ Len(chain) = 2
    /\ visited = <<chain[2], chain[1]>>
    /\ chain[1].type = "Error"

\* C9: source() returns a cause exactly when the constructor was given one;
\* for network, data_format, unknown and scp it returns None.
C9_SourceIffCause ==
    err.some =>
        /\ ErrorSource(err.val).some <=> call.source.some
        /\ call.fn \in NoCauseFns => ~ErrorSource(err.val).some
        /\ (pc = "done" /\ call.fn \in NoCauseFns) => visited = <<>>

C9_Witness ==
    /\ pc = "done"
    /\ call.fn = "scp"
    /\ visited = <<>>

\* C10: for every error built by the constructors alone, the kind tag Display
\* shows and the prefix of the stored reference belong to the same kind, and
\* the metadata is empty.
C10_TagPrefixMetadata ==
    \A e \in Links :
        LET byTag == {r \in KindTable :
                        StartsWith(ErrorDisplay(e), "[" \o r.tag \o "] ")}
            byPrefix == {r \in KindTable :
                        StartsWith(e.ctx.reference, r.prefix)}
        IN  /\ Cardinality(byTag) = 1
            /\ byTag = byPrefix
            /\ e.ctx.metadata = EmptyMap

C10_Witness ==
    /\ out.some
    /\ err.val.variant = "External"
    /\ StartsWith(out.val, "[EXTERNAL] ERR | Ref: EXT-")
    /\ Len(chain) = 2
    /\ chain[2].variant = "FileSystem"
    /\ chain[1].type = "Error"

=============================================================================
